---- MODULE Spec2Model ----
(***************************************************************************)
(* Model of xtgeo.common.xtgeo_dialog: the XTGeoDialog coordinator         *)
(* (verbosity state, logging level, message tiers), XTGShowProgress and    *)
(* XTGDescription.                                                         *)
(***************************************************************************)
EXTENDS Integers, Sequences, FiniteSets, TLC

(***************************************************************************)
(* Python float arithmetic (IEEE-754 binary64, round to nearest, ties to   *)
(* even), as far as XTGShowProgress.flush uses it:                         *)
(*     int(float(step) / float(self._max) * 100.0)                         *)
(* A double is [sign, mant, exp]: value = sign * M * 2^(exp - 52), where   *)
(* the 53-bit significand M = a*2^36 + b*2^18 + c is held as three limbs   *)
(* mant = <<a, b, c>> (a has 17 bits, b and c have 18); zero has mant      *)
(* <<0, 0, 0>>.  Subnormals, infinities and NaN do not occur for the       *)
(* operands of flush (integers of magnitude below 2^30, non-zero divisor). *)
(***************************************************************************)
SignificandBits == 53

LimbBits == (SignificandBits + 1) \div 3

TopBits == SignificandBits - 2 * LimbBits

RECURSIVE Pow2(_)
Pow2(n) == IF n = 0 THEN 1 ELSE 2 * Pow2(n - 1)

Limb == Pow2(LimbBits)

Abs(n) == IF n < 0 THEN -n ELSE n

Sign(n) == IF n < 0 THEN -1 ELSE 1

\* n/d scaled by a power of two into [1, 2): <<n', d', e>> with
\* n/d = (n'/d') * 2^e and d' <= n' < 2*d'.
RECURSIVE Normalise(_, _, _)
Normalise(n, d, e) ==
    IF n < d THEN Normalise(2 * n, d, e - 1)
    ELSE IF n >= 2 * d THEN Normalise(n, 2 * d, e + 1)
    ELSE <<n, d, e>>

\* k more quotient bits of r/d (r < d) appended to q: <<quotient, remainder>>.
RECURSIVE DivBits(_, _, _, _)
DivBits(r, d, k, q) ==
    IF k = 0 THEN <<q, r>>
    ELSE IF 2 * r >= d THEN DivBits(2 * r - d, d, k - 1, 2 * q + 1)
    ELSE DivBits(2 * r, d, k - 1, 2 * q)

\* The significand plus one unit in the last place, renormalised on overflow.
Increment(mant, e) ==
    LET c == mant[3] + 1
        b == mant[2] + (IF c = Limb THEN 1 ELSE 0)
        a == mant[1] + (IF b = Limb THEN 1 ELSE 0)
    IN  IF a = Pow2(TopBits)
        THEN [mant |-> <<Pow2(TopBits - 1), 0, 0>>, exp |-> e + 1]
        ELSE [mant |-> <<a, b % Limb, c % Limb>>, exp |-> e]

\* Round to nearest, ties to even: rem is what was cut off, half is half a
\* unit in the last place, in the same scale.
RoundNearestEven(mant, e, rem, half) ==
    IF rem > half \/ (rem = half /\ mant[3] % 2 = 1)
    THEN Increment(mant, e)
    ELSE [mant |-> mant, exp |-> e]

Zero == [sign |-> 1, mant |-> <<0, 0, 0>>, exp |-> 0]

IsZero(x) == x.mant = <<0, 0, 0>>

\* float(step) / float(self._max): both conversions are exact below 2^53, so
\* the quotient is the integer quotient n/d correctly rounded to 53 bits.
FloatDiv(n, d) ==
    IF n = 0 THEN Zero
    ELSE LET nd == Normalise(Abs(n), Abs(d), 0)
             A  == DivBits(nd[1] - nd[2], nd[2], TopBits - 1, 1)
             B  == DivBits(A[2], nd[2], LimbBits, 0)
             C  == DivBits(B[2], nd[2], LimbBits, 0)
             r  == RoundNearestEven(<<A[1], B[1], C[1]>>, nd[3], 2 * C[2], nd[2])
         IN  [sign |-> Sign(n) * Sign(d), mant |-> r.mant, exp |-> r.exp]

\* x * 100.0: the exact product M * 100 has 59 or 60 bits; it is cut back to
\* 53 bits (6 or 7 bits dropped) and rounded.
FloatMul100(x) ==
    IF IsZero(x) THEN Zero
    ELSE LET pc == x.mant[3] * 100
             pb == x.mant[2] * 100 + (pc \div Limb)
             pa == x.mant[1] * 100 + (pb \div Limb)
             b  == pb % Limb
             c  == pc % Limb
             s  == IF pa < Pow2(TopBits + 6) THEN 6 ELSE 7
             cut == Pow2(s)
             up == Pow2(LimbBits - s)
             m  == << pa \div cut,
                      (b \div cut) + (pa % cut) * up,
                      (c \div cut) + (b % cut) * up >>
             r  == RoundNearestEven(m, x.exp + s, c % cut, cut \div 2)
         IN  [sign |-> x.sign, mant |-> r.mant, exp |-> r.exp]

\* int(x): truncation toward zero (for |x| < 2^31).
FloatToInt(x) ==
    IF IsZero(x) \/ x.exp < 0 THEN 0
    ELSE IF x.exp < TopBits
         THEN x.sign * (x.mant[1] \div Pow2(TopBits - 1 - x.exp))
         ELSE x.sign * (x.mant[1] * Pow2(x.exp - TopBits + 1)
                        + (x.mant[2] \div Pow2(TopBits - 1 + LimbBits - x.exp)))

\* progress = int(float(step) / float(self._max) * 100.0)
Progress(step, max) == FloatToInt(FloatMul100(FloatDiv(step, max)))


(***************************************************************************)
(* Optional values (Python None), environment strings and int().           *)
(***************************************************************************)
None == <<>>

Some(v) == <<v>>

Digits == <<"0", "1", "2", "3", "4", "5", "6", "7", "8", "9">>

DigitValue(ch) == (CHOOSE k \in 1..Len(Digits) : Digits[k] = ch) - 1

IsDigit(ch) == \E k \in 1..Len(Digits) : Digits[k] = ch

\* str(n) for an integer, as a sequence of characters.
RECURSIVE NatStr(_)
NatStr(n) == IF n < 10 THEN <<Digits[n + 1]>>
             ELSE NatStr(n \div 10) \o <<Digits[(n % 10) + 1]>>

IntStr(n) == IF n < 0 THEN <<"-">> \o NatStr(-n) ELSE NatStr(n)

\* The value of a digit string; a "_" that groups digits counts for nothing.
RECURSIVE DigitsValue(_, _)
DigitsValue(chars, acc) ==
    IF chars = <<>> THEN acc
    ELSE IF Head(chars) = "_" THEN DigitsValue(Tail(chars), acc)
    ELSE DigitsValue(Tail(chars), 10 * acc + DigitValue(Head(chars)))

\* The characters int() drops around the number, among the characters
\* U+0000..U+00FF a string of this module can hold: the ASCII blanks with the
\* vertical tab, NEL (U+0085) and the no-break space (U+00A0).  The
\* separators U+001C..U+001F are not dropped.
VT == ""

NEL == ""

NBSP == " "

Whitespace == {" ", "\t", "\n", "\r", "\f", VT, NEL, NBSP}

RECURSIVE Strip(_)
Strip(chars) ==
    IF chars = <<>> THEN chars
    ELSE IF Head(chars) \in Whitespace THEN Strip(Tail(chars))
    ELSE IF chars[Len(chars)] \in Whitespace
         THEN Strip(SubSeq(chars, 1, Len(chars) - 1))
    ELSE chars

\* Digits, with single underscores allowed between two digits.
IsDigitString(body) ==
    /\ body # <<>>
    /\ IsDigit(body[1]) /\ IsDigit(body[Len(body)])
    /\ \A k \in 1..Len(body) : IsDigit(body[k]) \/ body[k] = "_"
    /\ \A k \in 1..(Len(body) - 1) : ~(body[k] = "_" /\ body[k + 1] = "_")

\* int(s) for an environment string s of characters up to U+00FF (the only
\* decimal digits among them are 0..9): surrounding whitespace is dropped, then an optional sign and a digit string are
\* expected; anything else raises ValueError.
ParseInt(text) ==
    LET chars  == Strip(text)
        signed == chars # <<>> /\ Head(chars) \in {"-", "+"}
        body   == IF signed THEN Tail(chars) ELSE chars
    IN  IF IsDigitString(body)
        THEN [raised |-> "",
              value  |-> IF signed /\ Head(chars) = "-"
                         THEN -DigitsValue(body, 0) ELSE DigitsValue(body, 0)]
        ELSE [raised |-> "ValueError", value |-> 0]

(***************************************************************************)
(* XTGeoDialog: construction and the verbosity state.                      *)
(***************************************************************************)
validlevels == <<"INFO", "WARNING", "DEBUG", "CRITICAL">>

Range(seq) == {seq[k] : k \in 1..Len(seq)}

\* The logginglevel setter: only the four valid names are stored.
logginglevel_setter_unchecked(self, level) ==
    [raised |-> "", self |-> [self EXCEPT !.logginglevel = level]]

logginglevel_setter(self, level) ==
    IF level \in Range(validlevels)
    THEN [raised |-> "", self |-> [self EXCEPT !.logginglevel = level]]
    ELSE [raised |-> "ValueError", self |-> self]

\* The attribute values __init__ assigns before it reads the environment.
Defaults ==
    [callclass |-> None, caller |-> None, lformat |-> None, lformatlevel |-> 1,
     logginglevel |-> "CRITICAL", logginglevel_fromenv |-> None,
     loggingname |-> "", syslevel |-> 1, showrtwarnings |-> TRUE]

\* XTGeoDialog.__init__ under environment env: [raised, self].  When a step
\* raises, self is the object as the assignments before that step left it.
XTGeoDialog_init(env) ==
    LET s0 == [Defaults EXCEPT !.logginglevel_fromenv = env.XTG_LOGGING_LEVEL]
        r1 == IF s0.logginglevel_fromenv \notin {None, Some("")}
              THEN logginglevel_setter(s0, s0.logginglevel_fromenv[1])
              ELSE [raised |-> "", self |-> s0]
        s1 == r1.self
        f  == IF env.XTG_LOGGING_FORMAT = None THEN [raised |-> "", value |-> 0]
              ELSE ParseInt(env.XTG_LOGGING_FORMAT[1])
        s2 == IF env.XTG_LOGGING_FORMAT = None THEN s1
              ELSE [s1 EXCEPT !.lformatlevel = f.value]
        v  == IF env.XTG_VERBOSE_LEVEL = None THEN [raised |-> "", value |-> 0]
              ELSE ParseInt(env.XTG_VERBOSE_LEVEL[1])
    IN  IF r1.raised # "" THEN [raised |-> r1.raised, self |-> s1]
        ELSE IF f.raised # "" THEN [raised |-> f.raised, self |-> s1]
        ELSE IF v.raised # "" THEN [raised |-> v.raised, self |-> s2]
        ELSE [raised |-> "", self |-> [s2 EXCEPT !.syslevel = v.value]]

\* The syslevel setter under environment env: [raised, self, stdout].
syslevel_setter_no_range_check(self, env, mylevel) ==
    LET v == IF env.XTG_VERBOSE_LEVEL = None THEN [raised |-> "", value |-> 0]
             ELSE ParseInt(env.XTG_VERBOSE_LEVEL[1])
    IN  [raised |-> v.raised,
         self   |-> IF env.XTG_VERBOSE_LEVEL = None \/ v.raised # ""
                    THEN [self EXCEPT !.syslevel = mylevel]
                    ELSE [self EXCEPT !.syslevel = v.value],
         stdout |-> <<>>]

syslevel_setter_ignores_env(self, env, mylevel) ==
    [raised |-> "",
     self   |-> IF 5 > mylevel /\ mylevel >= 0
                THEN [self EXCEPT !.syslevel = mylevel] ELSE self,
     stdout |-> IF 5 > mylevel /\ mylevel >= 0 THEN <<>>
                ELSE << [text |-> "Invalid range for syslevel"] >>]

syslevel_setter(self, env, mylevel) ==
    LET inrange == 5 > mylevel /\ mylevel >= 0
        s1  == IF inrange THEN [self EXCEPT !.syslevel = mylevel] ELSE self
        out == IF inrange THEN <<>> ELSE << [text |-> "Invalid range for syslevel"] >>
        v   == IF env.XTG_VERBOSE_LEVEL = None THEN [raised |-> "", value |-> 0]
               ELSE ParseInt(env.XTG_VERBOSE_LEVEL[1])
    IN  [raised |-> v.raised,
         self   |-> IF env.XTG_VERBOSE_LEVEL = None \/ v.raised # "" THEN s1
                    ELSE [s1 EXCEPT !.syslevel = v.value],
         stdout |-> out]

show_runtimewarnings(self, flag) == [self EXCEPT !.showrtwarnings = flag]

(***************************************************************************)
(* The message tiers.                                                      *)
(***************************************************************************)
ENDC == "\\033[0m"

WARN == "\\033[93;43m"

ERROR == "\\033[93;41m"

CRITICAL == "\\033[1;91m"

\* get_callerinfo: the caller's name and the last dotted component of
\* str(the_class); site = [caller, class], class a sequence of components.
get_callerinfo(self, site) ==
    [self EXCEPT !.caller = Some(site.caller),
                 !.callclass = Some(site.class[Len(site.class)])]

Prefix(idx) ==
    CASE idx = 0 -> "++"
      [] idx = 1 -> "**"
      [] idx = 3 -> ">>"
      [] idx = 6 -> WARN \o "##"
      [] idx = 8 -> ERROR \o "!#"
      [] idx = 9 -> CRITICAL \o "!!"
      [] OTHER   -> ""

Endfix(idx) == IF idx \in {6, 8, 9} THEN ENDC ELSE ""

Ulevel(level) ==
    IF level = -9 THEN <<"W">>
    ELSE IF level = -8 THEN <<"E">>
    ELSE IF level = -5 THEN <<"M">>
    ELSE IntStr(level)

\* _output: the lines printed (none when the gate is closed).
output_gate_strict(self, idx, level, string) ==
    IF level < self.syslevel
    THEN << [rich |-> FALSE, prefix |-> Prefix(idx), ulevel |-> <<>>,
             callclass |-> None, caller |-> None,
             string |-> string, endfix |-> Endfix(idx)] >>
    ELSE <<>>

output(self, idx, level, string) ==
    IF level <= self.syslevel
    THEN IF self.syslevel <= 1
         THEN << [rich |-> FALSE, prefix |-> Prefix(idx), ulevel |-> <<>>,
                  callclass |-> None, caller |-> None,
                  string |-> string, endfix |-> Endfix(idx)] >>
         ELSE << [rich |-> TRUE, prefix |-> Prefix(idx), ulevel |-> Ulevel(level),
                  callclass |-> self.callclass, caller |-> self.caller,
                  string |-> string, endfix |-> Endfix(idx)] >>
    ELSE <<>>


\* One message operation: caller introspection, then _output.
message(self, idx, level, site, string) ==
    LET s1 == get_callerinfo(self, site)
    IN  [raised |-> "", self |-> s1, stdout |-> output(s1, idx, level, string)]

insane(self, site, string) == message(self, 0, 4, site, string)

trace(self, site, string) == message(self, 0, 3, site, string)

debug(self, site, string) == message(self, 0, 2, site, string)

speak(self, site, string) == message(self, 1, 1, site, string)

say(self, site, string) == message(self, 3, -5, site, string)

warn(self, site, string) ==
    IF self.showrtwarnings THEN message(self, 6, 0, site, string)
    ELSE [raised |-> "", self |-> self, stdout |-> <<>>]

error(self, site, string) == message(self, 8, -8, site, string)

critical_exit_when_shown(self, site, string, sysexit) ==
    LET r == message(self, 9, -9, site, string)
    IN  [r EXCEPT !.raised = IF sysexit /\ r.stdout # <<>>
                             THEN "SystemExit" ELSE ""]

critical(self, site, string, sysexit) ==
    LET r == message(self, 9, -9, site, string)
    IN  [r EXCEPT !.raised = IF sysexit THEN "SystemExit" ELSE ""]

(***************************************************************************)
(* Python logging: the root logger, its handlers and the format templates. *)
(***************************************************************************)
BASIC_FORMAT == "%(levelname)s:%(name)s:%(message)s"

Format1 == "%(levelname)8s: (%(relative)ss) \t%(message)s"

Format2 ==
    "%(levelname)8s (%(relative)ss) %(name)44s [%(funcName)40s()] %(lineno)4d >> \t%(message)s"

Format3 ==
    "%(asctime)s Line: %(lineno)4d %(name)44s (Delta=%(relative)ss) [%(funcName)40s()]%(levelname)8s:\t%(message)s"

\* The root logger of a fresh interpreter: no handler, level WARNING.  A
\* handler is [class, filters, formatter], formatter None until one is set.
RootLogger == [handlers |-> <<>>, level |-> 30, captureWarnings |-> FALSE]

numericallogginglevel(self) ==
    CASE self.logginglevel = "INFO"    -> 20
      [] self.logginglevel = "WARNING" -> 30
      [] self.logginglevel = "DEBUG"   -> 10
      [] OTHER                         -> 50

\* logging.basicConfig(stream=sys.stdout): a stream handler is added to the
\* root logger only when it has none.
basicConfig(root) ==
    IF root.handlers = <<>>
    THEN [root EXCEPT !.handlers =
            << [class |-> "StreamHandler", filters |-> <<>>,
                formatter |-> Some(BASIC_FORMAT)] >>]
    ELSE root

\* functionlogger(name): logging.getLogger(name).addHandler(NullHandler());
\* the logger named "" or "root" is the root logger (getLogger("root") since
\* Python 3.9), the handlers of any other logger are not part of the state.
functionlogger(root, name) ==
    IF name \in {"", "root"}
    THEN [root EXCEPT !.handlers =
            Append(root.handlers,
                   [class |-> "NullHandler", filters |-> <<>>, formatter |-> None])]
    ELSE root

\* The loggingformat property: picks the template, adds a new _TimeFilter to
\* every root handler and sets the formatter: [self, root, value].
loggingformat(self, root) ==
    LET fmt == IF self.lformatlevel <= 1 THEN Format1
               ELSE IF self.lformatlevel = 2 THEN Format2
               ELSE Format3
    IN  [self  |-> [self EXCEPT !.lformat = Some(fmt)],
         root  |-> [root EXCEPT !.handlers =
                      [k \in 1..Len(root.handlers) |->
                          [class     |-> root.handlers[k].class,
                           filters   |-> Append(root.handlers[k].filters, "_TimeFilter"),
                           formatter |-> Some(fmt)]]],
         value |-> fmt]

\* basiclogger(name, logginglevel, loggingformat, info): [raised, self, root,
\* stdout].  logginglevel is None or Some(name); loggingformat is None or
\* Some([isint, value]).
basiclogger(self, root, name, level, format, info) ==
    LET r1 == IF level # None /\ self.logginglevel_fromenv = None
              THEN logginglevel_setter(self, level[1])
              ELSE [raised |-> "", self |-> self]
        s2 == IF format # None /\ format[1].isint
              THEN [r1.self EXCEPT !.lformatlevel = format[1].value]
              ELSE r1.self
        f  == loggingformat(s2, basicConfig(root))
        s3 == [f.self EXCEPT !.loggingname = name]
    IN  IF r1.raised # ""
        THEN [raised |-> r1.raised, self |-> self, root |-> root, stdout |-> <<>>]
        ELSE [raised |-> "",
              self   |-> s3,
              root   |-> [f.root EXCEPT !.level = numericallogginglevel(s3),
                                        !.captureWarnings = TRUE],
              stdout |-> IF info
                         THEN << [text |-> "Logginglevel is {}, formatlevel is {}, and format is {}",
                                  logginglevel |-> s3.logginglevel,
                                  lformatlevel |-> s3.lformatlevel,
                                  fmt |-> f.value] >>
                         ELSE <<>>]


(***************************************************************************)
(* XTGShowProgress.                                                        *)
(***************************************************************************)
XTGShowProgress_init(maxiter, info, leadtext, skip, show) ==
    [max |-> maxiter, info |-> info, show |-> show, leadtext |-> leadtext,
     skip |-> skip, next |-> 0]

\* Bounds of the progress model: the largest maxiter and the largest skip.
MaxIter == 100

MaxSkip == 2

\* Progress(step, max) tabulated over the steps and totals of the model.
ProgressTable ==
    [step \in (-1)..(MaxIter + 1), max \in 1..(MaxIter + 1) |-> Progress(step, max)]

\* flush(step): [self, stdout]; a line is "{leadtext}{progress}% {info}".
ShowProgress_flush(p, step) ==
    IF ~p.show THEN [self |-> p, stdout |-> <<>>]
    ELSE LET progress == ProgressTable[step, p.max]
         IN  IF progress >= p.next
             THEN [self   |-> [p EXCEPT !.next = p.next + p.skip],
                   stdout |-> << [leadtext |-> p.leadtext, percent |-> progress,
                                  info |-> p.info] >>]
             ELSE [self |-> p, stdout |-> <<>>]

\* finished(): [self, stdout].
ShowProgress_finished_counts_as_flush(p) ==
    IF ~p.show THEN [self |-> p, stdout |-> <<>>]
    ELSE [self   |-> [p EXCEPT !.next = p.next + p.skip],
          stdout |-> << [leadtext |-> p.leadtext, percent |-> 100,
                         info |-> p.info] >>]

ShowProgress_finished(p) ==
    IF ~p.show THEN [self |-> p, stdout |-> <<>>]
    ELSE [self   |-> p,
          stdout |-> << [leadtext |-> p.leadtext, percent |-> 100,
                         info |-> p.info] >>]

(***************************************************************************)
(* XTGDescription.  The instance is its list _txt of lines (strings).  A   *)
(* value passed to title or txt is a field [type, format]: the name of its *)
(* class, and for each format spec the code uses the outcome [raised,      *)
(* text] of format(value, spec), which is what str.format asks of it.      *)
(***************************************************************************)
RuleWidth == 99

NameWidth == 40

ArrowWidth == 2

RECURSIVE Repeat(_, _)
Repeat(ch, n) == IF n <= 0 THEN "" ELSE ch \o Repeat(ch, n - 1)

\* "=" * 99
Rule == Repeat("=", RuleWidth)

RECURSIVE Text(_)
Text(chars) == IF chars = <<>> THEN "" ELSE Head(chars) \o Text(Tail(chars))

\* The specs of "{}", "{:40s}" and "{:>2s}".
LeftSpec == Text(NatStr(NameWidth)) \o "s"

RightSpec == ">" \o Text(NatStr(ArrowWidth)) \o "s"

Specs == {"", LeftSpec, RightSpec}

Returns(text) == [raised |-> "", text |-> text]

Raises(exception) == [raised |-> exception, text |-> ""]

\* str.__format__(text, spec): filled with blanks to the width, never cut.
StrFormat(text, spec) ==
    IF spec = LeftSpec THEN text \o Repeat(" ", NameWidth - Len(text))
    ELSE IF spec = RightSpec THEN Repeat(" ", ArrowWidth - Len(text)) \o text
    ELSE text

\* A str.
StrField(text) ==
    [type |-> "str", format |-> [spec \in Specs |-> Returns(StrFormat(text, spec))]]

\* An instance of a subclass of str that overrides __str__: "{}" shows
\* str(value), a spec is applied to the characters.
StrSubclassField(chars, text) ==
    [type   |-> "str subclass",
     format |-> [spec \in Specs |->
                    IF spec = "" THEN Returns(text)
                    ELSE Returns(StrFormat(chars, spec))]]

\* An int (float, bool, complex and Decimal alike): the code s is unknown.
IntField(digits) ==
    [type   |-> "int",
     format |-> [spec \in Specs |->
                    IF spec = "" THEN Returns(digits) ELSE Raises("ValueError")]]

\* None (any class that inherits object.__format__ alike): no spec allowed.
NoneField ==
    [type   |-> "NoneType",
     format |-> [spec \in Specs |->
                    IF spec = "" THEN Returns("None") ELSE Raises("TypeError")]]

\* A date (datetime, time alike): the spec is a strftime pattern, and one
\* without a directive comes back as it is.
DateField(iso) ==
    [type   |-> "date",
     format |-> [spec \in Specs |->
                    IF spec = "" THEN Returns(iso) ELSE Returns(spec)]]

\* An Enum member (IPv4Address alike): the spec is applied to str(value).
EnumField(text) ==
    [type |-> "Enum", format |-> [spec \in Specs |-> Returns(StrFormat(text, spec))]]

\* An instance of a class whose __format__ does not return a str.
BrokenField ==
    [type |-> "object", format |-> [spec \in Specs |-> Raises("TypeError")]]

\* "{}".format(field), "{:40s}".format(field), "{:>2s}".format(field):
\* [raised, text].
Format(field) == field.format[""]

FormatLeft(field, width) == field.format[Text(NatStr(width)) \o "s"]

FormatRight(field, width) == field.format[">" \o Text(NatStr(width)) \o "s"]

\* atxt.insert(1, "=>")
InsertSeparator(atxt) ==
    IF atxt = <<>> THEN <<StrField("=>")>>
    ELSE <<atxt[1], StrField("=>")>> \o Tail(atxt)

\* The "  {}" columns of the format string from position k on, formatted
\* from left to right: [raised, text].
RECURSIVE Columns(_, _)
Columns(list, k) ==
    IF k > Len(list) THEN Returns("")
    ELSE LET this == Format(list[k])
             rest == Columns(list, k + 1)
         IN  IF this.raised # "" THEN this
             ELSE IF rest.raised # "" THEN rest
             ELSE Returns("  " \o this.text \o rest.text)

XTGDescription_init == <<>>

\* title(atitle): [raised, self].  The first rule line is appended before
\* the title is formatted.
XTGDescription_title(txt, atitle) ==
    LET fmt == Format(atitle)
    IN  IF fmt.raised # ""
        THEN [raised |-> fmt.raised, self |-> Append(txt, Rule)]
        ELSE [raised |-> "", self |-> txt \o <<Rule, fmt.text, Rule>>]

\* The format string of 2 to 7 fields applied to the list: [raised, text].
FormatRow(list) ==
    LET name  == FormatLeft(list[1], NameWidth)
        arrow == FormatRight(list[2], ArrowWidth)
        third == Format(list[3])
        rest  == Columns(list, 4)
    IN  IF name.raised # "" THEN name
        ELSE IF arrow.raised # "" THEN arrow
        ELSE IF third.raised # "" THEN third
        ELSE IF rest.raised # "" THEN rest
        ELSE Returns(name.text \o " " \o arrow.text \o " " \o third.text
                     \o rest.text)

\* _smartfmt(atxt): [raised, fmt].  With no branch taken fmt is unbound at
\* the return.
smartfmt_separator_always(atxt) ==
    LET alen == Len(atxt)
        list == InsertSeparator(atxt)
        r    == IF alen = 1
                THEN LET name == FormatLeft(list[1], NameWidth)
                     IN  IF name.raised # "" THEN name
                         ELSE Returns(name.text \o " =>")
                ELSE FormatRow(list)
    IN  IF alen \notin 1..7 THEN [raised |-> "UnboundLocalError", fmt |-> ""]
        ELSE [raised |-> r.raised, fmt |-> r.text]

smartfmt(atxt) ==
    LET alen == Len(atxt)
        list == InsertSeparator(atxt)
        r    == IF alen = 1 THEN FormatLeft(list[1], NameWidth)
                ELSE FormatRow(list)
    IN  IF alen \notin 1..7 THEN [raised |-> "UnboundLocalError", fmt |-> ""]
        ELSE [raised |-> r.raised, fmt |-> r.text]

\* txt(*atxt): [raised, self].
XTGDescription_txt_appends_on_error(txt, atxt) ==
    LET r == smartfmt(atxt)
    IN  [raised |-> r.raised, self |-> Append(txt, r.fmt)]

XTGDescription_txt(txt, atxt) ==
    LET r == smartfmt(atxt)
    IN  IF r.raised # "" THEN [raised |-> r.raised, self |-> txt]
        ELSE [raised |-> "", self |-> Append(txt, r.fmt)]

\* flush(): [self, stdout], one printed line per line of the buffer.
XTGDescription_flush_no_rule(txt) == [self |-> txt, stdout |-> txt]

XTGDescription_flush(txt) ==
    LET lines == Append(txt, Rule)
    IN  [self |-> lines, stdout |-> lines]

\* thetext after the loop thetext += line + "\n".
RECURSIVE TheText(_)
TheText(lines) ==
    IF lines = <<>> THEN ""
    ELSE Head(lines) \o "\n" \o TheText(Tail(lines))

\* astext(): [self, value], value = thetext[:-1].
XTGDescription_astext(txt) ==
    LET lines   == Append(txt, Rule)
        thetext == TheText(lines)
    IN  [self |-> lines, value |-> SubSeq(thetext, 1, Len(thetext) - 1)]

(***************************************************************************)
(* State.                                                                  *)
(*   environ  os.environ: the three XTG_* values, None when unset          *)
(*   self     the XTGeoDialog instance                                     *)
(*   root     the process-wide root logger                                 *)
(*   prog     the XTGShowProgress instance                                 *)
(*   loop     position of the docstring loop driving prog                  *)
(*   emitted  percent values flush has printed in that loop                *)
(*   call     the operation last executed and its arguments                *)
(*   stdout   the lines that operation printed                             *)
(*   raised   the exception it ended with ("" when it returned)            *)
(*   desc     the XTGDescription instance                                  *)
(*   returned the value that operation returned, None when it has none     *)
(***************************************************************************)
VARIABLES environ, self, root, prog, loop, emitted, call, stdout, raised,
          desc, returned

vars == <<environ, self, root, prog, loop, emitted, call, stdout, raised,
         desc, returned>>

Call(op, args) == [op |-> op, args |-> args]

\* Bounds of the dialog model.
MaxQuiet == 10

MaxVerbose == 5

MaxSyslevelArg == 10

MaxFilters == 2

MaxHandlers == 2

VerboseValues ==
    {None, Some(<<"x">>), Some(<<"\t", VT, "-", "2", NBSP, "\n">>), Some(<<"1", "_", "0">>)}
        \cup {Some(IntStr(n)) : n \in (-MaxQuiet)..MaxVerbose}

SyslevelArgs == (-1)..MaxSyslevelArg

Messages == {"This is a message"}

CallSites ==
    { [caller |-> "<module>", class |-> <<"None">>],
      [caller |-> "from_file", class |-> <<"<class 'xtgeo", "surface", "RegularSurface'>">>] }

LevelNames == {"INFO", "WARNING", "DEBUG", "CRITICAL", "TRACE"}

\* Environments: verbosity only, logging only, and a small mix of all three.
EnvVerbosity ==
    [XTG_LOGGING_LEVEL : {None}, XTG_LOGGING_FORMAT : {None},
     XTG_VERBOSE_LEVEL : VerboseValues]

EnvLogging ==
    [XTG_LOGGING_LEVEL : {None, Some(""), Some("INFO"), Some("TRACE")},
     XTG_LOGGING_FORMAT : {None, Some(<<" ", "2">>)},
     XTG_VERBOSE_LEVEL : {None}]

EnvMixed ==
    [XTG_LOGGING_LEVEL : {None, Some("INFO")},
     XTG_LOGGING_FORMAT : {None, Some(<<"3">>)},
     XTG_VERBOSE_LEVEL : {None, Some(<<"3">>)}]

NoProgress == XTGShowProgress_init(1, "", "", 1, FALSE)

Idle == [i |-> 0, pc |-> "idle"]

progvars == <<prog, loop, emitted>>

NoDescription == desc = XTGDescription_init /\ returned = None

descvars == <<desc, returned>>

\* The state after xtg = XTGeoDialog() in a fresh interpreter.
InitDialog(Envs) ==
    /\ environ \in Envs
    /\ XTGeoDialog_init(environ).raised = ""
    /\ self = XTGeoDialog_init(environ).self
    /\ root = RootLogger
    /\ prog = NoProgress /\ loop = Idle /\ emitted = <<>>
    /\ NoDescription
    /\ call = Call("__init__", <<>>)
    /\ stdout = <<>>
    /\ raised = ""

Outcome(r, s, rt, out) == [raised |-> r, self |-> s, root |-> rt, stdout |-> out]

\* The call c made on instance s with root logger rt while os.environ is env.
\* xtg = XTGeoDialog() keeps the old instance when the constructor raises.
Dispatch(c, s, rt, env) ==
    LET a == c.args
        On(r) == Outcome(r.raised, r.self, rt, r.stdout)
    IN  CASE c.op = "__init__" ->
               LET r == XTGeoDialog_init(env)
               IN  Outcome(r.raised, IF r.raised = "" THEN r.self ELSE s, rt, <<>>)
          [] c.op = "syslevel" -> On(syslevel_setter(s, env, a.mylevel))
          [] c.op = "get_callerinfo" ->
               Outcome("", get_callerinfo(s, a.site), rt, <<>>)
          [] c.op = "functionlogger" ->
               Outcome("", s, functionlogger(rt, a.name), <<>>)
          [] c.op = "show_runtimewarnings" ->
               Outcome("", show_runtimewarnings(s, a.flag), rt, <<>>)
          [] c.op = "insane" -> On(insane(s, a.site, a.string))
          [] c.op = "trace" -> On(trace(s, a.site, a.string))
          [] c.op = "debug" -> On(debug(s, a.site, a.string))
          [] c.op \in {"speak", "info"} -> On(speak(s, a.site, a.string))
          [] c.op = "say" -> On(say(s, a.site, a.string))
          [] c.op \in {"warn", "warning"} -> On(warn(s, a.site, a.string))
          [] c.op = "error" -> On(error(s, a.site, a.string))
          [] c.op = "critical" -> On(critical(s, a.site, a.string, a.sysexit))
          [] c.op = "logginglevel" ->
               LET r == logginglevel_setter(s, a.level)
               IN  Outcome(r.raised, r.self, rt, <<>>)
          [] c.op = "loggingformat" ->
               LET r == loggingformat(s, rt)
               IN  Outcome("", r.self, r.root, <<>>)
          [] c.op = "basiclogger" ->
               basiclogger(s, rt, a.name, a.logginglevel, a.loggingformat, a.info)

\* A message operation that reads XTG_VERBOSE_LEVEL again before it gates.
MessageNames ==
    {"insane", "trace", "debug", "speak", "info", "say", "warn", "warning",
     "error", "critical"}

ApplyRereadingVerboseLevel(c, s, rt, env) ==
    IF c.op \in MessageNames /\ env.XTG_VERBOSE_LEVEL # None
       /\ ParseInt(env.XTG_VERBOSE_LEVEL[1]).raised = ""
    THEN LET r == Dispatch(c, [s EXCEPT !.syslevel =
                                   ParseInt(env.XTG_VERBOSE_LEVEL[1]).value],
                           rt, env)
         IN  [r EXCEPT !.self.syslevel = s.syslevel]
    ELSE Dispatch(c, s, rt, env)

Apply(c, s, rt, env) == Dispatch(c, s, rt, env)

Result == Outcome(raised, self, root, stdout)

Do(c) ==
    LET r == Apply(c, self, root, environ)
    IN  /\ self' = r.self
        /\ root' = r.root
        /\ stdout' = r.stdout
        /\ raised' = r.raised
        /\ call' = c
        /\ UNCHANGED <<environ, progvars, descvars>>

\* os.environ is changed by the process (putenv / unsetenv).
Putenv(Envs) ==
    \E e \in Envs :
        /\ e # environ
        /\ environ' = e
        /\ call' = Call("putenv", <<>>)
        /\ stdout' = <<>> /\ raised' = ""
        /\ UNCHANGED <<self, root, progvars, descvars>>

Construct == Do(Call("__init__", <<>>))

SetSyslevel(Args) ==
    \E mylevel \in Args : Do(Call("syslevel", [mylevel |-> mylevel]))

ShowRuntimeWarnings ==
    \E flag \in BOOLEAN : Do(Call("show_runtimewarnings", [flag |-> flag]))

\* get_callerinfo called on its own.
GetCallerinfo ==
    \E site \in CallSites : Do(Call("get_callerinfo", [site |-> site]))

Message(names) ==
    \E name \in names, site \in CallSites, string \in Messages :
        Do(Call(name, [site |-> site, string |-> string]))

Insane == Message({"insane"})

Trace == Message({"trace"})

Debug == Message({"debug"})

\* info = speak
Speak == Message({"speak", "info"})

Say == Message({"say"})

\* warning = warn
Warn == Message({"warn", "warning"})

Error == Message({"error"})

Critical ==
    \E site \in CallSites, string \in Messages, sysexit \in BOOLEAN :
        Do(Call("critical", [site |-> site, string |-> string, sysexit |-> sysexit]))

SetLogginglevel(Levels) ==
    \E level \in Levels : Do(Call("logginglevel", [level |-> level]))

FiltersBelow(n) ==
    \A k \in 1..Len(root.handlers) : Len(root.handlers[k].filters) < n

\* Reading the loggingformat property.
Loggingformat ==
    /\ FiltersBelow(MaxFilters)
    /\ Do(Call("loggingformat", <<>>))

FormatArgs == {None, Some([isint |-> TRUE, value |-> 3]),
               Some([isint |-> FALSE, value |-> 0])}

BasicLogger(Levels, Formats, Infos) ==
    /\ FiltersBelow(MaxFilters)
    /\ \E level \in {None} \cup {Some(l) : l \in Levels},
          format \in Formats, info \in Infos :
          Do(Call("basiclogger",
                  [name |-> "test", logginglevel |-> level,
                   loggingformat |-> format, info |-> info]))

LoggerNames == {"", "root", "xtgeo.surface.regular_surface"}

FunctionLogger ==
    /\ Len(root.handlers) < MaxHandlers
    /\ \E name \in LoggerNames : Do(Call("functionlogger", [name |-> name]))

Messaging ==
    \/ Insane \/ Trace \/ Debug \/ Speak \/ Say \/ Warn \/ Error \/ Critical

Init == InitDialog(EnvVerbosity)

Next ==
    \/ Putenv(EnvVerbosity)
    \/ Construct
    \/ SetSyslevel(SyslevelArgs)
    \/ ShowRuntimeWarnings
    \/ GetCallerinfo
    \/ Messaging

Spec == Init /\ [][Next]_vars

InitLogging == InitDialog(EnvLogging)

NextLogging ==
    \/ Putenv(EnvLogging)
    \/ Construct
    \/ SetLogginglevel(LevelNames)
    \/ Loggingformat
    \/ BasicLogger({"WARNING", "TRACE"}, FormatArgs, BOOLEAN)

SpecLogging == InitLogging /\ [][NextLogging]_vars

InitEnv == InitDialog(EnvMixed)

NextEnv ==
    \/ Putenv(EnvMixed)
    \/ Construct
    \/ SetSyslevel({-1, 2})
    \/ GetCallerinfo
    \/ Debug
    \/ SetLogginglevel({"DEBUG", "TRACE"})
    \/ BasicLogger({"WARNING"}, {None}, {FALSE})

SpecEnv == InitEnv /\ [][NextEnv]_vars

\* The root handlers under functionlogger, loggingformat and basiclogger.
EnvHandlers ==
    [XTG_LOGGING_LEVEL : {None}, XTG_LOGGING_FORMAT : {None, Some(<<"2">>)},
     XTG_VERBOSE_LEVEL : {None}]

InitHandlers == InitDialog(EnvHandlers)

NextHandlers ==
    \/ FunctionLogger
    \/ Loggingformat
    \/ BasicLogger({"WARNING"}, FormatArgs, {FALSE})

SpecHandlers == InitHandlers /\ [][NextHandlers]_vars

(***************************************************************************)
(* XTGShowProgress driven by arbitrary calls, and by the docstring loop    *)
(*     for i in range(maxiter): theprogress.flush(i)                       *)
(*     theprogress.finished()                                              *)
(***************************************************************************)
ProgressTotals == {1, 30, 50}

NoDialog ==
    /\ environ = [XTG_LOGGING_LEVEL |-> None, XTG_LOGGING_FORMAT |-> None,
                  XTG_VERBOSE_LEVEL |-> None]
    /\ self = XTGeoDialog_init(environ).self
    /\ root = RootLogger
    /\ NoDescription

dialogvars == <<environ, self, root, desc, returned>>

InitProgress ==
    /\ NoDialog
    /\ \E maxiter \in ProgressTotals, skip \in 1..MaxSkip, show \in BOOLEAN :
          prog = XTGShowProgress_init(maxiter, "Compute stuff", "", skip, show)
    /\ loop = Idle /\ emitted = <<>>
    /\ call = Call("__init__", <<>>)
    /\ stdout = <<>>
    /\ raised = ""

Flush ==
    \E step \in (-1)..prog.max :
        LET r == ShowProgress_flush(prog, step)
        IN  /\ prog' = r.self
            /\ stdout' = r.stdout
            /\ raised' = ""
            /\ call' = Call("flush", [step |-> step])
            /\ UNCHANGED <<dialogvars, loop, emitted>>

Finished ==
    LET r == ShowProgress_finished(prog)
    IN  /\ prog' = r.self
        /\ stdout' = r.stdout
        /\ raised' = ""
        /\ call' = Call("finished", <<>>)
        /\ UNCHANGED <<dialogvars, loop, emitted>>

NextProgress == Flush \/ Finished

SpecProgress == InitProgress /\ [][NextProgress]_vars

InitLoop ==
    /\ NoDialog
    /\ \E maxiter \in 1..MaxIter, skip \in 1..MaxSkip :
          prog = XTGShowProgress_init(maxiter, "Compute stuff", "", skip, TRUE)
    /\ loop = [i |-> 0, pc |-> "for"]
    /\ emitted = <<>>
    /\ call = Call("__init__", <<>>)
    /\ stdout = <<>>
    /\ raised = ""

Percents(lines) == [k \in 1..Len(lines) |-> lines[k].percent]

LoopFlush ==
    /\ loop.pc = "for" /\ loop.i < prog.max
    /\ LET r == ShowProgress_flush(prog, loop.i)
       IN  /\ prog' = r.self
           /\ stdout' = r.stdout
           /\ emitted' = emitted \o Percents(r.stdout)
           /\ call' = Call("flush", [step |-> loop.i])
    /\ loop' = [loop EXCEPT !.i = loop.i + 1]
    /\ raised' = ""
    /\ UNCHANGED dialogvars

LoopFinished ==
    /\ loop.pc = "for" /\ loop.i = prog.max
    /\ LET r == ShowProgress_finished(prog)
       IN  /\ prog' = r.self
           /\ stdout' = r.stdout
           /\ call' = Call("finished", <<>>)
    /\ loop' = [loop EXCEPT !.pc = "done"]
    /\ raised' = ""
    /\ UNCHANGED <<dialogvars, emitted>>

NextLoop == LoopFlush \/ LoopFinished

SpecLoop == InitLoop /\ [][NextLoop]_vars

(***************************************************************************)
(* XTGDescription driven by arbitrary calls of title, txt, flush, astext.  *)
(***************************************************************************)
\* Bounds: lines in the buffer, txt lines among them, fields of a txt call.
MaxLines == 4

MaxRows == 2

MaxFields == 8

Titles == {StrField("Description of RegularSurface instance"), BrokenField}

LongName == StrField("Name of the property within the grid (PORO)")

ColumnsName == StrField("Number of columns")

\* k fields: the given first one, then the values 1, 2, ...
Row(first, k) ==
    IF k = 0 THEN <<>>
    ELSE <<first>> \o [i \in 1..(k - 1) |-> IntField(Digits[i + 1])]

Rows ==
    {Row(ColumnsName, k) : k \in 0..MaxFields}
        \cup {Row(IntField("7"), 2), Row(NoneField, 1),
              Row(LongName, 2), Row(DateField("2019-01-02"), 2),
              Row(EnumField("Units.METRIC"), 2),
              Row(StrSubclassField("zone", "Zone(zone)"), 2),
              <<ColumnsName, IntField("1"), BrokenField>>}

IsRow(line) == line # Rule /\ line \notin {Format(t).text : t \in Titles}

RowCount(txt) == Cardinality({i \in 1..Len(txt) : IsRow(txt[i])})

InitDescription ==
    /\ environ = [XTG_LOGGING_LEVEL |-> None, XTG_LOGGING_FORMAT |-> None,
                  XTG_VERBOSE_LEVEL |-> None]
    /\ self = XTGeoDialog_init(environ).self
    /\ root = RootLogger
    /\ prog = NoProgress /\ loop = Idle /\ emitted = <<>>
    /\ desc = XTGDescription_init
    /\ returned = None
    /\ call = Call("__init__", <<>>)
    /\ stdout = <<>>
    /\ raised = ""

nodescvars == <<environ, self, root, progvars>>

Title ==
    /\ Len(desc) + 3 <= MaxLines
    /\ \E atitle \in Titles :
          LET r == XTGDescription_title(desc, atitle)
          IN  /\ desc' = r.self
              /\ raised' = r.raised
              /\ call' = Call("title", [atitle |-> atitle])
    /\ stdout' = <<>> /\ returned' = None
    /\ UNCHANGED nodescvars

Txt ==
    /\ \E atxt \in Rows :
          LET r == XTGDescription_txt(desc, atxt)
          IN  /\ Len(r.self) <= MaxLines /\ RowCount(r.self) <= MaxRows
              /\ desc' = r.self
              /\ raised' = r.raised
              /\ call' = Call("txt", [atxt |-> atxt])
    /\ stdout' = <<>> /\ returned' = None
    /\ UNCHANGED nodescvars

DescFlush ==
    /\ Len(desc) < MaxLines
    /\ LET r == XTGDescription_flush(desc)
       IN  /\ desc' = r.self
           /\ stdout' = r.stdout
    /\ call' = Call("flush", <<>>)
    /\ raised' = "" /\ returned' = None
    /\ UNCHANGED nodescvars

Astext ==
    /\ Len(desc) < MaxLines
    /\ LET r == XTGDescription_astext(desc)
       IN  /\ desc' = r.self
           /\ returned' = Some(r.value)
    /\ call' = Call("astext", <<>>)
    /\ stdout' = <<>> /\ raised' = ""
    /\ UNCHANGED nodescvars

NextDescription == Title \/ Txt \/ DescFlush \/ Astext

SpecDescription == InitDescription /\ [][NextDescription]_vars

(***************************************************************************)
(* Properties.                                                             *)
(***************************************************************************)
\* The numeric level of each message operation, as the specification lists it.
TierLevel ==
    [insane |-> 4, trace |-> 3, debug |-> 2, speak |-> 1, info |-> 1,
     warn |-> 0, warning |-> 0, say |-> -5, error |-> -8, critical |-> -9]

Printed(out) == Len(out) = 1

VerboseLevel(env) == env.XTG_VERBOSE_LEVEL

\* C1: a message operation with numeric level L prints a line iff L <= syslevel
\* (warn/warning only when runtime warnings are shown as well), for every
\* syslevel including negative ones from the environment, and it leaves
\* syslevel as it was.
C1_GateRule ==
    [][ call'.op \in MessageNames =>
          /\ self'.syslevel = self.syslevel
          /\ Len(stdout') \in {0, 1}
          /\ Printed(stdout') <=>
                /\ TierLevel[call'.op] <= self.syslevel
                /\ call'.op \in {"warn", "warning"} => self.showrtwarnings ]_vars

\* say (level -5) printed at syslevel -5, a value only the environment gives.
C1_Witness ==
    /\ call.op = "say"
    /\ self.syslevel = -5
    /\ VerboseLevel(environ) = Some(IntStr(-5))
    /\ Printed(stdout)

\* C2: when XTG_VERBOSE_LEVEL holds the integer e (any sign, in or out of
\* [0,5)), syslevel is e right after construction and right after every
\* syslevel set, whatever was passed; without the variable syslevel is 0
\* right after construction.
C2_EnvironmentWins ==
    /\ \A e \in (-MaxQuiet)..MaxVerbose :
          ( /\ call.op \in {"__init__", "syslevel"}
            /\ VerboseLevel(environ) = Some(IntStr(e)) )
          => (raised = "" /\ self.syslevel = e)
    /\ (call.op = "__init__" /\ VerboseLevel(environ) = None)
          => (raised = "" /\ self.syslevel = 0)

\* syslevel set to 3 while XTG_VERBOSE_LEVEL is -7: the stored value is -7.
C2_Witness ==
    /\ call.op = "syslevel"
    /\ call.args.mylevel = 3
    /\ VerboseLevel(environ) = Some(IntStr(-7))
    /\ self.syslevel = -7

\* C3: without XTG_VERBOSE_LEVEL, a syslevel set to n outside [0,5) keeps the
\* stored value, raises nothing and prints one diagnostic line; a set to n in
\* [0,5) stores n; so a stored value in [0,5) stays in [0,5).
C3_RangeCheck ==
    [][ (call'.op = "syslevel" /\ VerboseLevel(environ) = None) =>
          LET n == call'.args.mylevel
          IN  /\ raised' = ""
              /\ IF 0 <= n /\ n < 5
                 THEN self' = [self EXCEPT !.syslevel = n] /\ stdout' = <<>>
                 ELSE self' = self /\ Printed(stdout')
              /\ self.syslevel \in 0..4 => self'.syslevel \in 0..4 ]_vars

\* syslevel was 3, then set to 10: still 3, a diagnostic, no exception.
C3_Witness ==
    /\ call.op = "syslevel"
    /\ call.args.mylevel = 10
    /\ VerboseLevel(environ) = None
    /\ self.syslevel = 3
    /\ Printed(stdout)
    /\ raised = ""

\* The logging level an operation was asked to set: <<>> when none.
LevelAsked(c) ==
    IF c.op = "logginglevel" THEN Some(c.args.level)
    ELSE IF c.op = "basiclogger" THEN c.args.logginglevel
    ELSE None

SetsAsAsked(lvl) ==
    IF lvl \in Range(validlevels)
    THEN raised' = "" /\ self'.logginglevel = lvl
    ELSE raised' = "ValueError" /\ self' = self /\ root' = root

\* C4 as stated: through the setter and through basiclogger alike, an invalid
\* level raises the invalid-level error and changes nothing, a valid one is
\* stored.
C4_AsStated ==
    [][ LevelAsked(call') # None => SetsAsAsked(LevelAsked(call')[1]) ]_vars

\* C4 amended: that holds for the setter, and for basiclogger when no
\* XTG_LOGGING_LEVEL was captured at construction; when one was captured,
\* basiclogger ignores its logginglevel argument: no error, level unchanged.
C4_SetterAndUnguardedBasiclogger ==
    [][ LevelAsked(call') # None =>
          IF call'.op = "basiclogger" /\ self.logginglevel_fromenv # None
          THEN raised' = "" /\ self'.logginglevel = self.logginglevel
          ELSE SetsAsAsked(LevelAsked(call')[1]) ]_vars

\* basiclogger("test", logginglevel="TRACE") failed and the level set before
\* ("INFO") is still stored.
C4_Witness ==
    /\ call.op = "basiclogger"
    /\ call.args.logginglevel = Some("TRACE")
    /\ raised = "ValueError"
    /\ self.logginglevel_fromenv = None
    /\ self.logginglevel = "INFO"

\* C5: once a valid XTG_LOGGING_LEVEL v was captured at construction, the
\* stored logging level is v after any sequence of explicit level changes.
C5_EnvironmentLevelIsPermanent ==
    \A v \in Range(validlevels) :
        self.logginglevel_fromenv = Some(v) => self.logginglevel = v

\* C6: critical with the default sysexit ends in SystemExit at every syslevel
\* (also below -9, where nothing is printed); critical(sysexit=False) returns;
\* no other message operation raises.
C6_OnlyCriticalIsFatal ==
    /\ (call.op = "critical" /\ call.args.sysexit)
          => /\ raised = "SystemExit"
             /\ Printed(stdout) <=> -9 <= self.syslevel
    /\ (call.op = "critical" /\ ~call.args.sysexit) => raised = ""
    /\ (call.op \in MessageNames \ {"critical"}) => raised = ""

\* critical at syslevel -10: nothing printed, SystemExit all the same.
C6_Witness ==
    /\ call.op = "critical"
    /\ call.args.sysexit
    /\ self.syslevel = -10
    /\ stdout = <<>>
    /\ raised = "SystemExit"

\* C7 as stated: the environment is read at construction only, so whatever
\* os.environ holds later, every operation after construction gives the
\* result it gives now.
C7_AsStated ==
    [][ call'.op \notin {"putenv", "__init__"} =>
          \A e \in EnvMixed : Apply(call', self, root, e) = Result' ]_vars

\* C7 amended: XTG_LOGGING_LEVEL and XTG_LOGGING_FORMAT are read at
\* construction only; XTG_VERBOSE_LEVEL is read at construction and again by
\* every syslevel set.  Whatever os.environ holds later, every operation
\* other than a syslevel set gives the same result, and a syslevel set gives
\* the same result under every environment with the same XTG_VERBOSE_LEVEL.
C7_ReadAtConstructionAndSyslevelSet ==
    [][ call'.op \notin {"putenv", "__init__"} =>
          \A e \in EnvMixed :
              (call'.op = "syslevel" => VerboseLevel(e) = VerboseLevel(environ))
              => Apply(call', self, root, e) = Result' ]_vars

\* XTG_VERBOSE_LEVEL became 3 after construction; debug still goes by the
\* stored syslevel 0 and prints nothing.
C7_Witness ==
    /\ call.op = "debug"
    /\ VerboseLevel(environ) = Some(IntStr(3))
    /\ self.syslevel = 0
    /\ stdout = <<>>

\* C8: with display enabled flush(step) prints a line iff
\* floor(step / max * 100) >= next and then adds skip to next; otherwise
\* (nothing printed, or display disabled) next is unchanged; so next never
\* decreases and a threshold is used once.
C8_FlushRule ==
    [][ call'.op = "flush" =>
          LET percent == (call'.args.step * 100) \div prog.max
          IN  IF prog.show /\ percent >= prog.next
              THEN Printed(stdout') /\ prog' = [prog EXCEPT !.next = prog.next + prog.skip]
              ELSE stdout' = <<>> /\ prog' = prog ]_vars

\* C9: for a fresh reporter with maxiter N >= 1 and skip >= 1, flush(0),
\* flush(1), ..., flush(N-1) print strictly increasing percent values, the
\* first of them 0.
C9_StrictlyIncreasing ==
    /\ \A k \in 1..(Len(emitted) - 1) : emitted[k] < emitted[k + 1]
    /\ loop.pc = "for" /\ loop.i > 0 => emitted[1] = 0

\* C10: finished() prints exactly one 100% line when display is enabled and
\* nothing when it is disabled, after any calls, and changes no field of the
\* reporter.
C10_Finished ==
    [][ call'.op = "finished" =>
          /\ prog' = prog
          /\ stdout' = IF prog.show
                       THEN << [leadtext |-> prog.leadtext, percent |-> 100,
                                info |-> prog.info] >>
                       ELSE <<>> ]_vars

\* finished() after flush calls that stopped below 100%.
C10_Witness ==
    /\ call.op = "finished"
    /\ prog.show
    /\ prog.next = 3
    /\ Printed(stdout)
    /\ stdout[1].percent = 100

\* A line of 99 "=" characters.
RuleLine ==
    "==================================================================================================="

TrailingRules(txt) ==
    Cardinality({k \in 1..Len(txt) : \A i \in k..Len(txt) : txt[i] = RuleLine})

EndsWith(text, tail) ==
    /\ Len(text) >= Len(tail)
    /\ SubSeq(text, Len(text) - Len(tail) + 1, Len(text)) = tail

\* The text "{}".format shows for a field.
Shown(field) == field.format[""].text


\* The first position at or after start where sub occurs in text, else 0.
RECURSIVE FindFrom(_, _, _)
FindFrom(text, sub, start) ==
    IF start + Len(sub) - 1 > Len(text) THEN 0
    ELSE IF SubSeq(text, start, start + Len(sub) - 1) = sub THEN start
    ELSE FindFrom(text, sub, start + 1)

\* The parts occur in text one after the other, from position start on.
RECURSIVE InOrder(_, _, _)
InOrder(text, parts, start) ==
    \/ parts = <<>>
    \/ LET at == FindFrom(text, Head(parts), start)
       IN  at > 0 /\ InOrder(text, Tail(parts), at + Len(Head(parts)))

Texts(atxt) == [k \in 1..Len(atxt) |-> Shown(atxt[k])]

\* text followed by spaces up to 40 columns.
Padded(text) == text \o Repeat(" ", 40 - Len(text))

RECURSIVE Spaced(_)
Spaced(texts) ==
    IF Len(texts) = 1 THEN texts[1]
    ELSE texts[1] \o "  " \o Spaced(Tail(texts))

IsString(field) == field = StrField(Shown(field))

IsInteger(field) == field = IntField(Shown(field))

\* A txt call with a number of fields in counts, the first field a string,
\* the others strings or integers.
TxtCalled(counts) ==
    /\ call'.op = "txt" /\ Len(call'.args.atxt) \in counts
    /\ IsString(call'.args.atxt[1])
    /\ \A k \in 2..Len(call'.args.atxt) :
          IsString(call'.args.atxt[k]) \/ IsInteger(call'.args.atxt[k])

\* C12 as stated: a txt call with 1 to 7 fields appends one line that holds
\* the first field padded to 40 columns, then "=>", then the other fields in
\* their order.
C12_AsStated ==
    [][ TxtCalled(1..7) =>
          LET f == Texts(call'.args.atxt)
          IN  /\ raised' = ""
              /\ Len(desc') = Len(desc) + 1
              /\ InOrder(desc'[Len(desc')],
                         <<Padded(f[1]), "=>">> \o Tail(f), 1) ]_vars

\* C12 amended: that holds for 2 to 7 fields, where the line is
\* "<first padded to 40 columns> => f2  f3  ..  fk"; a txt call with 1 field
\* appends the first field padded to 40 columns and no separator.
C12_SeparatorFromTwoFields ==
    [][ TxtCalled(1..7) =>
          LET f == Texts(call'.args.atxt)
          IN  /\ raised' = ""
              /\ desc' = Append(desc,
                           IF Len(f) = 1 THEN Padded(f[1])
                           ELSE Padded(f[1]) \o " => " \o Spaced(Tail(f)))
              /\ Len(f) > 1 =>
                   InOrder(desc'[Len(desc')],
                           <<Padded(f[1]), "=>">> \o Tail(f), 1) ]_vars

\* A row of seven fields has been appended after a title.
C12_Witness ==
    /\ call.op = "txt" /\ Len(call.args.atxt) = 7 /\ raised = ""
    /\ Len(desc) = 4
    /\ desc[4] = "Number of columns                        => 1  2  3  4  5  6"

Configured == call'.op \in {"loggingformat", "basiclogger"} /\ raised' = ""

\* C13: configuring the formatters (reading loggingformat, or a basiclogger
\* call that returns) is idempotent on the root handlers: after it every
\* handler carries exactly one _TimeFilter and the chosen formatter, however
\* many configurations came before, and configuring once more with the same
\* format level leaves the handlers as they are.
C13_ConfigureIsIdempotent ==
    [][ Configured =>
          /\ \A k \in 1..Len(root'.handlers) :
                /\ root'.handlers[k].filters = <<"_TimeFilter">>
                /\ root'.handlers[k].formatter = self'.lformat
          /\ loggingformat(self', root').root.handlers = root'.handlers ]_vars

LetterCode == [say |-> "M", warn |-> "W", warning |-> "W", error |-> "E"]

\* C14: a line printed in rich mode (syslevel > 1) shows the code "M" for
\* say, "W" for warn and warning, "E" for error and the numeric level for
\* insane, trace, debug, speak and info, and a tier of another severity
\* printed by the same instance never shows the same code.
C14_LetterCodes ==
    [][ call'.op \in MessageNames /\ Printed(stdout') /\ stdout'[1].rich =>
          LET shown == stdout'[1].ulevel
              level == TierLevel[call'.op]
          IN  /\ call'.op \in DOMAIN LetterCode =>
                    shown = <<LetterCode[call'.op]>>
              /\ call'.op \in {"insane", "trace", "debug", "speak", "info"} =>
                    shown = IntStr(level)
              /\ \A other \in MessageNames :
                    LET line == output(self', 0, TierLevel[other], "")
                    IN  TierLevel[other] # level /\ Printed(line) =>
                            line[1].ulevel # shown ]_vars

\* C15: a txt call with no field or with more than 7 fields raises an error
\* and leaves the buffer exactly as it was, so a flush right after it prints
\* the lines of the successful calls and the new rule line only.
C15_RejectsOtherCounts ==
    [][ /\ call'.op = "txt" /\ Len(call'.args.atxt) \notin 1..7 =>
              raised' # "" /\ desc' = desc
        /\ call.op = "txt" /\ raised # "" /\ call'.op = "flush" =>
              stdout' = Append(desc, RuleLine) ]_vars

\* A txt call with eight fields has failed on a buffer holding a title and a
\* row.
C15_Witness ==
    /\ call.op = "txt" /\ Len(call.args.atxt) = 8
    /\ raised = "UnboundLocalError"
    /\ Len(desc) = 4 /\ IsRow(desc[4]) /\ desc[3] = RuleLine

====
